---- MODULE Spec2Model ----
(***************************************************************************)
(* Model of main.py: the sequential scrape pipeline.  A URL is a sequence  *)
(* of one-character strings, so that endswith, strip, re.sub, slicing and  *)
(* len are computed character by character as Python computes them.        *)
(***************************************************************************)
EXTENDS Integers, Sequences, FiniteSets, TLC

VARIABLES
    urls,                        \* main.py:85  the loaded URL list
    run,                         \* which invocation of the script this is
    pc,                          \* "loop" | "fetch" | "done"
    idx,                         \* main.py:116 1-based index of the current item
    skipped_pdf_count,           \* main.py:109
    skipped_exists_count,        \* main.py:110
    error_count,                 \* main.py:111
    successfully_scraped_count,  \* main.py:112
    dirs,                        \* domain directories under MAIN_OUTPUT_DIRECTORY
    files,                       \* output tree: path -> content
    output_path,                 \* main.py:172 (meaningful while pc = "fetch")
    outcome,                     \* terminal state logged for each item of this run
    prev_outcome,                \* the same, for the previous run
    fetch_calls,                 \* indices for which app.scrape_url was called
    q                            \* filename-resolution query (SpecNames only)

vars == <<urls, run, pc, idx, skipped_pdf_count, skipped_exists_count,
          error_count, successfully_scraped_count, dirs, files, output_path,
          outcome, prev_outcome, fetch_calls, q>>

----------------------------------------------------------------------------
(* Bounds of the model *)

MaxUrls == 2
MaxRuns == 2
MaxIdxDigits == 3
PadLen == 60

----------------------------------------------------------------------------
(* Characters and Python string primitives *)

UpperLetters == <<"A","B","C","D","E","F","G","H","I","J","K","L","M",
                  "N","O","P","Q","R","S","T","U","V","W","X","Y","Z">>

LowerLetters == <<"a","b","c","d","e","f","g","h","i","j","k","l","m",
                  "n","o","p","q","r","s","t","u","v","w","x","y","z">>

Digits == <<"0","1","2","3","4","5","6","7","8","9">>

Range(s) == {s[i] : i \in 1..Len(s)}

\* The one element of a singleton.  TheOnly({e(x) : x \in {v}}) is e(v)
\* with v computed once.
TheOnly(S) == CHOOSE x \in S : TRUE

LowerOf == [c \in Range(UpperLetters) |->
               LowerLetters[CHOOSE k \in 1..Len(UpperLetters) : UpperLetters[k] = c]]

\* str.lower()
lower(s) ==
    TheOnly({ [i \in 1..Len(t) |->
                  IF t[i] \in DOMAIN LowerOf THEN LowerOf[t[i]] ELSE t[i]] :
              t \in {s} })

\* str.endswith(suffix)
endswith(s, suffix) ==
    /\ Len(s) >= Len(suffix)
    /\ SubSeq(s, Len(s) - Len(suffix) + 1, Len(s)) = suffix

\* str(n) for n >= 0
RECURSIVE str(_)
str(n) == IF n < 10 THEN <<Digits[n + 1]>>
          ELSE str(n \div 10) \o <<Digits[(n % 10) + 1]>>

\* s[:n], Python slice semantics (a negative n counts from the end)
SliceTo(s, n) ==
    IF n >= 0
    THEN SubSeq(s, 1, IF n < Len(s) THEN n ELSE Len(s))
    ELSE SubSeq(s, 1, IF Len(s) + n > 0 THEN Len(s) + n ELSE 0)

\* the least and the greatest element of a non-empty set of numbers
Min(S) == CHOOSE i \in S : \A j \in S : i <= j

Max(S) == CHOOSE i \in S : \A j \in S : i >= j

\* s.strip('/')
strip_slash(s) ==
    TheOnly({ TheOnly({ IF keep = {} THEN <<>>
                        ELSE SubSeq(t, Min(keep), Max(keep)) :
                        keep \in {{i \in 1..Len(t) : t[i] /= "/"}} }) :
              t \in {s} })

\* index of the first character of s at or after `from` that is in cs,
\* Len(s) + 1 when there is none
FirstIndex(s, from, cs) ==
    TheOnly({ TheOnly({ IF hits = {} THEN Len(t) + 1 ELSE Min(hits) :
                        hits \in {{i \in from..Len(t) : t[i] \in cs}} }) :
              t \in {s} })

----------------------------------------------------------------------------
(* main.py:25-56  the path sanitizer *)

\* The character class of REPLACE_CHARS_PATTERN, r'[\/:*?"<>|]': in the
\* regular expression \/ is an escaped slash, so the class holds eight
\* characters and the backslash is not one of them.
REPLACE_CHARS == {"/", ":", "*", "?", "\"", "<", ">", "|"}

sanitize_url_path_for_filename(path) ==
    IF path = <<"/">> \/ path = <<>> THEN <<"i","n","d","e","x">>
    ELSE TheOnly({ IF stripped = <<>> THEN <<"u","n","t","i","t","l","e","d">>
                   ELSE [i \in 1..Len(stripped) |->
                            IF stripped[i] \in REPLACE_CHARS THEN "_"
                            ELSE stripped[i]] :
                   stripped \in {strip_slash(path)} })

----------------------------------------------------------------------------
(* main.py:159-169  the output filename and its length policy *)

MAX_FILENAME_LEN == 200

DotMd == <<".", "m", "d">>

\* a truncation that leaves no room for the digits of the index
TruncNoIndexWidth(filename_base, i) ==
    SliceTo(filename_base, MAX_FILENAME_LEN - Len(DotMd) - 1)

\* main.py:168
truncated_base(filename_base, i) ==
    SliceTo(filename_base, MAX_FILENAME_LEN - Len(DotMd) - Len(str(i)) - 1)

\* main.py:163
too_long(filename_base) == Len(filename_base \o DotMd) > MAX_FILENAME_LEN

\* a truncation that does not append the index
FilenameDropsIndex(filename_base, i) ==
    IF too_long(filename_base)
    THEN truncated_base(filename_base, i) \o <<"_">> \o DotMd
    ELSE filename_base \o DotMd

\* main.py:159-169
output_filename(filename_base, i) ==
    IF too_long(filename_base)
    THEN truncated_base(filename_base, i) \o <<"_">> \o str(i) \o DotMd
    ELSE filename_base \o DotMd

----------------------------------------------------------------------------
(* main.py:156  urllib.parse.urlparse(url).path *)

SchemeChars ==
    Range(UpperLetters) \cup Range(LowerLetters) \cup Range(Digits) \cup {"+", "-", "."}

\* what is left of url after urlsplit has removed "scheme:"
AfterScheme(url) ==
    TheOnly({ IF /\ 1 < c /\ c <= Len(url)
                 /\ url[1] \in Range(UpperLetters) \cup Range(LowerLetters)
                 /\ \A k \in 1..(c - 1) : url[k] \in SchemeChars
              THEN SubSeq(url, c + 1, Len(url))
              ELSE url :
              c \in {FirstIndex(url, 1, {":"})} })

\* what is left after urlsplit has removed "//netloc"
AfterNetloc(url) ==
    TheOnly({ IF Len(rest) >= 2 /\ SubSeq(rest, 1, 2) = <<"/", "/">>
              THEN SubSeq(rest, FirstIndex(rest, 3, {"/", "?", "#"}), Len(rest))
              ELSE rest :
              rest \in {AfterScheme(url)} })

\* the path component: up to the fragment and the query string
url_path(url) ==
    TheOnly({ SubSeq(rest, 1, FirstIndex(rest, 1, {"?", "#"}) - 1) :
              rest \in {AfterNetloc(url)} })

----------------------------------------------------------------------------
(* main.py:126-139  tldextract.extract(url) and the registrable domain *)

\* The entries of the public suffix list that the modelled hosts can match.
PublicSuffixes ==
    { <<"m","y">>, <<"e","d","u",".","m","y">>, <<"c","o","m">> }

\* url without its "scheme://"
WithoutScheme(url) ==
    TheOnly({ IF s + 2 <= Len(url) /\ SubSeq(url, s, s + 2) = <<":", "/", "/">>
              THEN SubSeq(url, s + 3, Len(url))
              ELSE url :
              s \in {FirstIndex(url, 1, {":"})} })

\* the netloc: up to the path, the query string and the fragment
Netloc(url) ==
    TheOnly({ SubSeq(rest, 1, FirstIndex(rest, 1, {"/", "?", "#"}) - 1) :
              rest \in {WithoutScheme(url)} })

\* the netloc without its userinfo
WithoutUserinfo(url) ==
    TheOnly({ TheOnly({ IF ats = {} THEN net
                        ELSE SubSeq(net, Max(ats) + 1, Len(net)) :
                        ats \in {{i \in 1..Len(net) : net[i] = "@"}} }) :
              net \in {Netloc(url)} })

\* the host tldextract looks at: the netloc without userinfo and port
Host(url) ==
    TheOnly({ SubSeq(h, 1, FirstIndex(h, 1, {":"}) - 1) :
              h \in {WithoutUserinfo(url)} })

\* the labels of host start at 1 and after every dot
LabelStarts(host) ==
    {1} \cup {i + 1 : i \in {j \in 1..Len(host) : host[j] = "."}}

\* where the longest public suffix of host starts, Len(host) + 2 when host
\* ends in none
SuffixStart(host) ==
    TheOnly({ IF starts = {} THEN Len(host) + 2 ELSE Min(starts) :
              starts \in {{i \in LabelStarts(host) :
                              SubSeq(host, i, Len(host)) \in PublicSuffixes}} })

\* the fields of tldextract's result for a host: the suffix is the longest
\* run of trailing labels that is a public suffix, the domain is the label
\* before it; without a known suffix the last label is the domain and the
\* suffix is empty.
ExtractHost(host, si) ==
    TheOnly({ [domain |-> IF before = {} THEN <<>>
                          ELSE SubSeq(host, Max(before), si - 2),
               suffix |-> SubSeq(host, si, Len(host))] :
              before \in {{i \in LabelStarts(host) : i < si}} })

\* extracted = tldextract.extract(url)
extract(url) ==
    TheOnly({ TheOnly({ ExtractHost(host, si) : si \in {SuffixStart(host)} }) :
              host \in {lower(Host(url))} })

\* main.py:130
resolvable(url) ==
    TheOnly({ e.domain /= <<>> /\ e.suffix /= <<>> : e \in {extract(url)} })

\* main.py:136-139
main_domain(url) ==
    TheOnly({ [i \in 1..Len(d) |-> IF d[i] \in {":", "/"} THEN "_" ELSE d[i]] :
              d \in { TheOnly({ e.domain \o <<".">> \o e.suffix :
                                e \in {extract(url)} }) } })

----------------------------------------------------------------------------
(* main.py:119-123  the PDF filter *)

DotPdf == <<".", "p", "d", "f">>

\* a filter that forgets to lower-case the URL
IsPdfCaseSensitive(url) == endswith(url, <<".", "P", "D", "F">>)

\* main.py:120
is_pdf(url) == endswith(lower(url), DotPdf)

----------------------------------------------------------------------------
(* The inputs of the model: lines of links.txt *)

Rep(c, n) == [i \in 1..n |-> c]

HTTP == <<"h","t","t","p",":","/","/">>

\* http://upm.edu.my/page1
UrlPage == HTTP \o <<"u","p","m",".","e","d","u",".","m","y">> \o <<"/","p","a","g","e","1">>

\* http://edu.my/page1 : the host is itself a public suffix
UrlSuffixHost == HTTP \o <<"e","d","u",".","m","y">> \o <<"/","p","a","g","e","1">>

\* http://edu.my/page1.pdf
UrlSuffixHostPdf == HTTP \o <<"e","d","u",".","m","y">> \o <<"/","p","a","g","e","1",".","p","d","f">>

\* http://x.com/doc.PDF
UrlUpperPdf == HTTP \o <<"x",".","c","o","m">> \o <<"/","d","o","c",".","P","D","F">>

\* http://www.upm.edu.my/doc.pdf?v=1 : the path ends in .pdf, the URL does not
UrlPdfThenQuery == HTTP \o <<"w","w","w",".","u","p","m",".","e","d","u",".","m","y">> \o <<"/","d","o","c",".","p","d","f","?","v","=","1">>

\* http://x.com/p?f=a.pdf : the URL ends in .pdf, the path does not
UrlQueryEndsPdf == HTTP \o <<"x",".","c","o","m">> \o <<"/","p","?","f","=","a",".","p","d","f">>

\* http://upm.edu.my/aaa...a : a path longer than MAX_FILENAME_LEN
UrlLong == HTTP \o <<"u","p","m",".","e","d","u",".","m","y">> \o <<"/">> \o Rep("a", MAX_FILENAME_LEN + PadLen)

URLPool == {UrlPage, UrlSuffixHost, UrlSuffixHostPdf, UrlUpperPdf,
            UrlPdfThenQuery, UrlQueryEndsPdf, UrlLong}

UrlLists == UNION {[1..n -> URLPool] : n \in 1..MaxUrls}

NoQuery == [stage |-> "none"]

\* The pure functions of the pipeline, tabulated over the URLs of the model.
PerUrl ==
    [u \in URLPool |->
        [pdf         |-> is_pdf(u),
         resolvable  |-> resolvable(u),
         main_domain |-> main_domain(u),
         base        |-> sanitize_url_path_for_filename(url_path(u))]]

----------------------------------------------------------------------------
(* The state after start-up (main.py:1-112) and the per-URL loop *)

\* main.py:90
total_urls_loaded == Len(urls)

\* main.py:82-112: the URLs are loaded, the main output directory exists,
\* the counters are zero
Init ==
    /\ urls \in UrlLists
    /\ run = 1
    /\ pc = "loop"
    /\ idx = 0
    /\ skipped_pdf_count = 0
    /\ skipped_exists_count = 0
    /\ error_count = 0
    /\ successfully_scraped_count = 0
    /\ dirs = {}
    /\ files = <<>>
    /\ output_path = <<>>
    /\ outcome = <<>>
    /\ prev_outcome = <<>>
    /\ fetch_calls = <<>>
    /\ q = NoQuery

\* main.py:116: the loop takes the next URL
AtLoop == pc = "loop" /\ idx < Len(urls)

url == urls[idx + 1]

\* main.py:143 DOMAIN_OUTPUT_DIRECTORY, main.py:156-172 output_path
resolve_path(u, i) ==
    <<PerUrl[u].main_domain, output_filename(PerUrl[u].base, i)>>

\* an existence test on the name without its extension
PathExistsNoExt(path) ==
    <<path[1], SubSeq(path[2], 1, Len(path[2]) - Len(DotMd))>> \in DOMAIN files

\* main.py:175 os.path.exists(output_path)
path_exists(path) == path \in DOMAIN files

\* a write to output_filename instead of output_path
WriteFileBasename(fs, path, content) ==
    [p \in DOMAIN fs \cup {<<<<>>, path[2]>>} |->
        IF p = <<<<>>, path[2]>> THEN content ELSE fs[p]]

\* main.py:194-195 open(output_path, 'w') and f.write
WriteFile(fs, path, content) ==
    [p \in DOMAIN fs \cup {path} |-> IF p = path THEN content ELSE fs[p]]

\* main.py:183-186 the markdown the collaborator returns for this call
markdown_content == [run |-> run, item |-> idx, complete |-> TRUE]

\* what open(..., 'w') leaves behind when f.write raises
partial_content == [run |-> run, item |-> idx, complete |-> FALSE]

\* main.py:119-123
SkipPdf ==
    /\ AtLoop
    /\ PerUrl[url].pdf
    /\ idx' = idx + 1
    /\ skipped_pdf_count' = skipped_pdf_count + 1
    /\ outcome' = Append(outcome, "SKIP_PDF")
    /\ UNCHANGED <<urls, run, pc, skipped_exists_count, error_count,
                   successfully_scraped_count, dirs, files, output_path,
                   prev_outcome, fetch_calls, q>>

\* an unresolvable domain that is logged and not counted
UnresolvableUncounted ==
    /\ AtLoop
    /\ ~PerUrl[url].pdf
    /\ ~PerUrl[url].resolvable
    /\ idx' = idx + 1
    /\ outcome' = Append(outcome, "ERROR")
    /\ UNCHANGED <<urls, run, pc, skipped_pdf_count, skipped_exists_count,
                   error_count, successfully_scraped_count, dirs, files,
                   output_path, prev_outcome, fetch_calls, q>>

\* main.py:126-133
Unresolvable ==
    /\ AtLoop
    /\ ~PerUrl[url].pdf
    /\ ~PerUrl[url].resolvable
    /\ idx' = idx + 1
    /\ error_count' = error_count + 1
    /\ outcome' = Append(outcome, "ERROR")
    /\ UNCHANGED <<urls, run, pc, skipped_pdf_count, skipped_exists_count,
                   successfully_scraped_count, dirs, files, output_path,
                   prev_outcome, fetch_calls, q>>

\* main.py:146-153: os.makedirs of the domain directory raises
MkdirFails ==
    /\ AtLoop
    /\ ~PerUrl[url].pdf
    /\ PerUrl[url].resolvable
    /\ PerUrl[url].main_domain \notin dirs
    /\ idx' = idx + 1
    /\ error_count' = error_count + 1
    /\ outcome' = Append(outcome, "ERROR")
    /\ UNCHANGED <<urls, run, pc, skipped_pdf_count, skipped_exists_count,
                   successfully_scraped_count, dirs, files, output_path,
                   prev_outcome, fetch_calls, q>>

\* main.py:125-178: the output file is there
SkipExists ==
    /\ AtLoop
    /\ ~PerUrl[url].pdf
    /\ PerUrl[url].resolvable
    /\ path_exists(resolve_path(url, idx + 1))
    /\ idx' = idx + 1
    /\ dirs' = dirs \cup {PerUrl[url].main_domain}
    /\ skipped_exists_count' = skipped_exists_count + 1
    /\ outcome' = Append(outcome, "SKIP_EXISTS")
    /\ UNCHANGED <<urls, run, pc, skipped_pdf_count, error_count,
                   successfully_scraped_count, files, output_path,
                   prev_outcome, fetch_calls, q>>

\* main.py:125-183: the output file is not there, app.scrape_url is called
Proceed ==
    /\ AtLoop
    /\ ~PerUrl[url].pdf
    /\ PerUrl[url].resolvable
    /\ ~path_exists(resolve_path(url, idx + 1))
    /\ idx' = idx + 1
    /\ dirs' = dirs \cup {PerUrl[url].main_domain}
    /\ output_path' = resolve_path(url, idx + 1)
    /\ fetch_calls' = Append(fetch_calls, idx + 1)
    /\ pc' = "fetch"
    /\ UNCHANGED <<urls, run, skipped_pdf_count, skipped_exists_count,
                   error_count, successfully_scraped_count, files, outcome,
                   prev_outcome, q>>

\* an exception of the collaborator that nothing catches
FetchRaisesAborts ==
    /\ pc = "fetch"
    /\ pc' = "aborted"
    /\ UNCHANGED <<urls, run, idx, skipped_pdf_count, skipped_exists_count,
                   error_count, successfully_scraped_count, dirs, files,
                   output_path, outcome, prev_outcome, fetch_calls, q>>

\* main.py:183, 199-201: app.scrape_url raises
FetchRaises ==
    /\ pc = "fetch"
    /\ error_count' = error_count + 1
    /\ outcome' = Append(outcome, "ERROR")
    /\ pc' = "loop"
    /\ output_path' = <<>>
    /\ UNCHANGED <<urls, run, idx, skipped_pdf_count, skipped_exists_count,
                   successfully_scraped_count, dirs, files, prev_outcome,
                   fetch_calls, q>>

\* main.py:186-191: the response holds no markdown
EmptyContent ==
    /\ pc = "fetch"
    /\ error_count' = error_count + 1
    /\ outcome' = Append(outcome, "ERROR")
    /\ pc' = "loop"
    /\ output_path' = <<>>
    /\ UNCHANGED <<urls, run, idx, skipped_pdf_count, skipped_exists_count,
                   successfully_scraped_count, dirs, files, prev_outcome,
                   fetch_calls, q>>

\* main.py:194, 199-201: open(output_path, 'w') raises, no file is created
OpenFails ==
    /\ pc = "fetch"
    /\ error_count' = error_count + 1
    /\ outcome' = Append(outcome, "ERROR")
    /\ pc' = "loop"
    /\ output_path' = <<>>
    /\ UNCHANGED <<urls, run, idx, skipped_pdf_count, skipped_exists_count,
                   successfully_scraped_count, dirs, files, prev_outcome,
                   fetch_calls, q>>

\* main.py:194-195, 199-201: open has created the file and f.write (or the
\* flush at close) raises
WriteFails ==
    /\ pc = "fetch"
    /\ files' = WriteFile(files, output_path, partial_content)
    /\ error_count' = error_count + 1
    /\ outcome' = Append(outcome, "ERROR")
    /\ pc' = "loop"
    /\ output_path' = <<>>
    /\ UNCHANGED <<urls, run, idx, skipped_pdf_count, skipped_exists_count,
                   successfully_scraped_count, dirs, prev_outcome,
                   fetch_calls, q>>

\* main.py:186-197: the markdown is written
Saved ==
    /\ pc = "fetch"
    /\ files' = WriteFile(files, output_path, markdown_content)
    /\ successfully_scraped_count' = successfully_scraped_count + 1
    /\ outcome' = Append(outcome, "SAVED")
    /\ pc' = "loop"
    /\ output_path' = <<>>
    /\ UNCHANGED <<urls, run, idx, skipped_pdf_count, skipped_exists_count,
                   error_count, dirs, prev_outcome, fetch_calls, q>>

\* main.py:203-212: the loop is over, the statistics are printed
Report ==
    /\ pc = "loop"
    /\ idx = Len(urls)
    /\ pc' = "done"
    /\ UNCHANGED <<urls, run, idx, skipped_pdf_count, skipped_exists_count,
                   error_count, successfully_scraped_count, dirs, files,
                   output_path, outcome, prev_outcome, fetch_calls, q>>

\* main.py:82-112: the script is started again on the same links.txt and
\* the same output directory
NextRun ==
    /\ pc = "done"
    /\ run < MaxRuns
    /\ run' = run + 1
    /\ pc' = "loop"
    /\ idx' = 0
    /\ skipped_pdf_count' = 0
    /\ skipped_exists_count' = 0
    /\ error_count' = 0
    /\ successfully_scraped_count' = 0
    /\ prev_outcome' = outcome
    /\ outcome' = <<>>
    /\ fetch_calls' = <<>>
    /\ UNCHANGED <<urls, dirs, files, output_path, q>>

Next ==
    \/ SkipPdf
    \/ Unresolvable
    \/ MkdirFails
    \/ SkipExists
    \/ Proceed
    \/ FetchRaises
    \/ EmptyContent
    \/ OpenFails
    \/ WriteFails
    \/ Saved
    \/ Report
    \/ NextRun

Spec == Init /\ [][Next]_vars

\* Every call returns and every step of the single thread is taken.
FairSpec == Spec /\ WF_vars(Next)

----------------------------------------------------------------------------
(* Filename resolution as a function of (URL path, index): main.py:30-56   *)
(* and main.py:156-169 applied to two items of one run and one domain.     *)

\* URL paths around the length limit: "/" a^k mid b^m
NameLens == {0} \cup ((MAX_FILENAME_LEN - 7)..(MAX_FILENAME_LEN - 5))

NameMids == { <<>>, <<"_","1">>, <<"_","2">>, <<"_","1","0">>, <<"\\">>, <<":">> }

NamePaths ==
    { <<"/">> \o Rep("a", k) \o mid \o Rep("b", m) :
        k \in NameLens, mid \in NameMids, m \in {0, PadLen} }
    \cup { <<>>, <<"/", "/">>, <<"/","a","/","b",":","c","?","d">> }

\* 1-based positions with one to MaxIdxDigits digits
NameIdx == {2} \cup {10 ^ (d - 1) : d \in 1..MaxIdxDigits}

\* sanitize_url_path_for_filename, tabulated over the paths of the model
Sanitized == [p \in NamePaths |-> sanitize_url_path_for_filename(p)]

InitNames ==
    /\ urls = <<>>
    /\ run = 1
    /\ pc = "names"
    /\ idx = 0
    /\ skipped_pdf_count = 0
    /\ skipped_exists_count = 0
    /\ error_count = 0
    /\ successfully_scraped_count = 0
    /\ dirs = {}
    /\ files = <<>>
    /\ output_path = <<>>
    /\ outcome = <<>>
    /\ prev_outcome = <<>>
    /\ fetch_calls = <<>>
    /\ q \in [stage : {"input"}, path1 : NamePaths, idx1 : NameIdx,
              path2 : NamePaths, idx2 : NameIdx]

\* main.py:157-169 for the item at idx1 and for the item at idx2
Resolve ==
    /\ q.stage = "input"
    /\ q' = [stage |-> "resolved",
             path1 |-> q.path1, idx1 |-> q.idx1,
             path2 |-> q.path2, idx2 |-> q.idx2,
             base1 |-> Sanitized[q.path1],
             name1 |-> output_filename(Sanitized[q.path1], q.idx1),
             base2 |-> Sanitized[q.path2],
             name2 |-> output_filename(Sanitized[q.path2], q.idx2)]
    /\ UNCHANGED <<urls, run, pc, idx, skipped_pdf_count, skipped_exists_count,
                   error_count, successfully_scraped_count, dirs, files,
                   output_path, outcome, prev_outcome, fetch_calls>>

NextNames == Resolve

SpecNames == InitNames /\ [][NextNames]_vars

----------------------------------------------------------------------------
(* Properties *)

Terminal == {"SKIP_PDF", "SKIP_EXISTS", "SAVED", "ERROR"}

Count(log, o) == Cardinality({i \in 1..Len(log) : log[i] = o})

CounterSum == skipped_pdf_count + skipped_exists_count
              + successfully_scraped_count + error_count

\* C1: counter conservation.  At the end of every run the four counters add
\* up to total_urls_loaded; during the run they add up to the number of
\* items that have reached a terminal state, and each counter equals the
\* number of items that ended in its state (one increment per item).
C1_CounterConservation ==
    /\ pc = "done" => total_urls_loaded = CounterSum
    /\ pc = "loop" => idx = CounterSum
    /\ pc = "fetch" => idx = CounterSum + 1
    /\ pc \in {"loop", "fetch", "done"} =>
          /\ skipped_pdf_count = Count(outcome, "SKIP_PDF")
          /\ skipped_exists_count = Count(outcome, "SKIP_EXISTS")
          /\ successfully_scraped_count = Count(outcome, "SAVED")
          /\ error_count = Count(outcome, "ERROR")

C1_Witness ==
    /\ pc = "done"
    /\ Len(urls) = 2
    /\ skipped_exists_count = 1
    /\ error_count = 1

\* whether the path component of a URL of the model ends in ".pdf", any case
PathEndsInPdf == [u \in URLPool |-> endswith(lower(url_path(u)), DotPdf)]

\* C2: PDF filter.  An item is a pdf-skip exactly when the path component
\* of its URL ends in ".pdf" (any case), and no fetch is ever issued for an
\* item whose path ends in ".pdf".
C2_PdfFilter ==
    /\ \A i \in 1..Len(outcome) :
          outcome[i] = "SKIP_PDF" <=> PathEndsInPdf[urls[i]]
    /\ \A k \in 1..Len(fetch_calls) : ~PathEndsInPdf[urls[fetch_calls[k]]]

\* C3 as stated: in a second run over the same input and output tree no
\* fetch is issued and every item resolves to SKIP_EXISTS.
C3_Original ==
    run >= 2 =>
        /\ fetch_calls = <<>>
        /\ \A i \in 1..Len(outcome) : outcome[i] = "SKIP_EXISTS"

\* C3 amended: idempotence.  In a run that follows a run over the same
\* input and output tree, every item the previous run ended in SAVED or
\* SKIP_EXISTS is not fetched and resolves to SKIP_EXISTS, and every item
\* that was a pdf-skip is a pdf-skip again and is not fetched.
C3_Idempotence ==
    run >= 2 =>
        \A i \in 1..Len(prev_outcome) :
            /\ prev_outcome[i] \in {"SAVED", "SKIP_EXISTS"} =>
                  /\ \A k \in 1..Len(fetch_calls) : fetch_calls[k] /= i
                  /\ i <= Len(outcome) => outcome[i] = "SKIP_EXISTS"
            /\ prev_outcome[i] = "SKIP_PDF" =>
                  /\ \A k \in 1..Len(fetch_calls) : fetch_calls[k] /= i
                  /\ i <= Len(outcome) => outcome[i] = "SKIP_PDF"

C3_Witness ==
    /\ run = 2
    /\ pc = "done"
    /\ prev_outcome = <<"SAVED", "ERROR">>
    /\ outcome = <<"SKIP_EXISTS", "SAVED">>

\* C4: exists-before-fetch.  Whenever the loop takes an item that is not a
\* pdf-skip, whose domain resolves and whose output path is in the output
\* tree, the item ends in SKIP_EXISTS, the exists-skip counter goes up by
\* one and no fetch is issued; a fetch is issued only in a step that found
\* the output path absent, and the path is still absent while the fetch is
\* in flight.
C4_ExistsBeforeFetch ==
    [][ /\ ( /\ AtLoop
             /\ ~PerUrl[url].pdf
             /\ PerUrl[url].resolvable
             /\ resolve_path(url, idx + 1) \in DOMAIN files )
           => /\ outcome' = Append(outcome, "SKIP_EXISTS")
              /\ skipped_exists_count' = skipped_exists_count + 1
              /\ fetch_calls' = fetch_calls
              /\ pc' = "loop"
        /\ (run' = run /\ fetch_calls' /= fetch_calls)
           => /\ AtLoop
              /\ resolve_path(url, idx + 1) \notin DOMAIN files
              /\ fetch_calls' = Append(fetch_calls, idx + 1)
              /\ pc' = "fetch"
        /\ pc' = "fetch" => output_path' \notin DOMAIN files'
      ]_vars

C4_Witness ==
    /\ run = 1
    /\ outcome = <<"SAVED", "SKIP_EXISTS">>
    /\ fetch_calls = <<1>>

\* the characters the sanitizer is documented to replace
ForbiddenChars == {"/", "\\", ":", "*", "?", "\"", "<", ">", "|"}

\* C5: sanitization.  The result of sanitize_url_path_for_filename holds
\* none of the characters / \ : * ? " < > |.
C5_Sanitization ==
    q.stage = "resolved" =>
        \A i \in 1..Len(q.base1) : q.base1[i] \notin ForbiddenChars

\* C6: length bound.  When the sanitized base plus ".md" is longer than 200
\* characters the filename is at most 200 characters long, ends in ".md"
\* and is a prefix of the sanitized base followed by "_", the index and
\* ".md"; otherwise it is the sanitized base followed by ".md".
C6_LengthBound ==
    q.stage = "resolved" =>
        IF Len(q.base1) + 3 > 200
        THEN /\ Len(q.name1) <= 200
             /\ endswith(q.name1, DotMd)
             /\ \E n \in 0..Len(q.base1) :
                   q.name1 = SubSeq(q.base1, 1, n) \o <<"_">> \o str(q.idx1) \o DotMd
        ELSE q.name1 = q.base1 \o DotMd

C6_Witness ==
    /\ q.stage = "resolved"
    /\ Len(q.base1) + 3 > 200
    /\ q.idx1 >= 10
    /\ Len(q.name1) = 200

\* C7: per-item failure isolation.  The run is never aborted; an item that
\* fails increments the error counter and the loop goes on; the items are
\* taken in input order, one terminal state each; and every run reaches the
\* final statistics report with a terminal state for every item.
C7_FailureIsolation ==
    /\ [](pc \in {"loop", "fetch", "done"})
    /\ [](Len(outcome) = IF pc = "fetch" THEN idx - 1 ELSE idx)
    /\ [](pc = "done" =>
            /\ idx = Len(urls)
            /\ Len(outcome) = Len(urls)
            /\ \A i \in 1..Len(outcome) : outcome[i] \in Terminal)
    /\ [][ /\ outcome' = Append(outcome, "ERROR")
              => (error_count' = error_count + 1 /\ pc' = "loop")
           /\ idx' /= idx => (idx' = idx + 1 \/ (pc = "done" /\ idx' = 0))
         ]_vars
    /\ (pc /= "done") ~> (pc = "done")

C7_Witness ==
    /\ pc = "done"
    /\ outcome = <<"ERROR", "SAVED">>
    /\ error_count = 1
    /\ successfully_scraped_count = 1

\* the input of the end-to-end scenario
Scenario == <<UrlSuffixHost, UrlSuffixHostPdf>>

\* C8 as stated: the scenario issues one fetch, writes one file under
\* edu.my and ends with total=2, pdf=1, exists=0, ok=1, err=0.
C8_Original ==
    (urls = Scenario /\ run = 1 /\ pc = "done") =>
        /\ Len(fetch_calls) = 1
        /\ Cardinality(DOMAIN files) = 1
        /\ \A p \in DOMAIN files : p[1] = <<"e","d","u",".","m","y">>
        /\ total_urls_loaded = 2
        /\ skipped_pdf_count = 1
        /\ skipped_exists_count = 0
        /\ successfully_scraped_count = 1
        /\ error_count = 0

\* C8 amended: on ["http://edu.my/page1", "http://edu.my/page1.pdf"] and an
\* empty output root the run issues no fetch and writes no file, because
\* edu.my is a public suffix with no domain label before it: the first item
\* is an error, the second a pdf-skip, and the counters end as total=2,
\* pdf=1, exists=0, ok=0, err=1.
C8_Scenario ==
    (urls = Scenario /\ run = 1 /\ pc = "done") =>
        /\ fetch_calls = <<>>
        /\ DOMAIN files = {}
        /\ outcome = <<"ERROR", "SKIP_PDF">>
        /\ total_urls_loaded = 2
        /\ skipped_pdf_count = 1
        /\ skipped_exists_count = 0
        /\ successfully_scraped_count = 0
        /\ error_count = 1

C8_Witness == urls = Scenario /\ run = 1 /\ pc = "done"

\* C9 as stated: the filename of an item that takes the truncation branch
\* differs from the filename of every item at another position, truncated
\* or not.
C9_Original ==
    (q.stage = "resolved" /\ q.idx1 /= q.idx2 /\ Len(q.base1) + 3 > 200)
        => q.name1 /= q.name2

\* C9 amended: the filenames of two items at different positions that both
\* take the truncation branch differ.
C9_TruncatedNamesDiffer ==
    ( /\ q.stage = "resolved"
      /\ q.idx1 /= q.idx2
      /\ Len(q.base1) + 3 > 200
      /\ Len(q.base2) + 3 > 200 )
        => q.name1 /= q.name2

C9_Witness ==
    /\ q.stage = "resolved"
    /\ q.idx1 = 2
    /\ q.idx2 = 10
    /\ Len(q.base1) + 3 > 200
    /\ Len(q.base2) + 3 > 200
    /\ q.base1 /= q.base2
    /\ SubSeq(q.name1, 1, 195) = SubSeq(q.name2, 1, 195)

\* C10: no overwrite.  Every file of the output tree keeps its content in
\* every step (so no existing path is opened for writing and a path is
\* written at most once per run), and a file is created only in a step that
\* ends the item in SAVED.
C10_NoOverwrite ==
    [][ /\ \A p \in DOMAIN files : p \in DOMAIN files' /\ files'[p] = files[p]
        /\ DOMAIN files' /= DOMAIN files => outcome' = Append(outcome, "SAVED")
      ]_vars

====
